---- MODULE Spec2Model ----
(***************************************************************************)
(* The Netskope event collector (NetskopeEventCollector.py): the per-type  *)
(* pagination loop of get_all_events, the dedup_by_id reconciliation, the  *)
(* seeding and persistence of the last run in main, and the three commands *)
(* (fetch-events, netskope-get-events, test-module).                       *)
(*                                                                         *)
(* A dict of the last run is a record [ts, ids] of two partial functions   *)
(* over the event types: ts[t] is the value under the key t, ids[t] the    *)
(* value under the key "<t>-ids" (held as the set of its elements, which   *)
(* is all the code ever reads of it: set(last_run.get(...))).              *)
(* An event is a record; a field holding Absent is a key the dict lacks.   *)
(***************************************************************************)
EXTENDS Integers, Sequences, FiniteSets, TLC

(* ---------------------------------------------------------------- bounds *)

\* The page size. The program's value is 10000; the model scales it down
\* and keeps the program's ratio MAX_SKIP / MAX_EVENTS_PAGE_SIZE = 5.
MAX_EVENTS_PAGE_SIZE == 2
MAX_SKIP == 5 * MAX_EVENTS_PAGE_SIZE

\* The configured first-fetch time, as epoch seconds.
FirstFetch == 1
\* Timestamps of the remote's events are FirstFetch .. MaxTs.
MaxTs == 3
\* The remote holds at most MaxEvents events in all.
MaxEvents == 3
\* Only the first ActiveTypes event types ever hold events on the remote.
ActiveTypes == 2
\* The configured max_fetch is 1 .. MaxFetch.
MaxFetch == 2
\* The pagination loop is followed while it has accumulated at most MaxAccum events.
MaxAccum == 12
\* dedup_by_id is tried on batches of at most MaxBatch events, on the same input
\* at most MaxCalls times.
MaxBatch == 3
MaxCalls == 2
\* The remote holds at most MaxMalformed records that lack a field.
MaxMalformed == 1

(* ------------------------------------------------------- program constants *)

ALL_SUPPORTED_EVENT_TYPES == <<"audit", "page", "network", "application", "alert">>

\* Python's None (what dict.get returns for a missing key).
None == -1
\* Marks a key that a dict does not hold.
Absent == -2

Types == {ALL_SUPPORTED_EVENT_TYPES[i] : i \in 1..Len(ALL_SUPPORTED_EVENT_TYPES)}

\* The number of full pages that reach MAX_SKIP.
PagesToCap == MAX_SKIP \div MAX_EVENTS_PAGE_SIZE

(* ----------------------------------------------------------------- helpers *)

Range(s) == {s[i] : i \in 1..Len(s)}

Reverse(s) == [i \in 1..Len(s) |-> s[Len(s) + 1 - i]]

Min(a, b) == IF a < b THEN a ELSE b

\* s[:n] for n >= 0
Take(s, n) == SubSeq(s, 1, Min(n, Len(s)))

\* s[a:a+n]
Slice(s, a, n) == SubSeq(s, a + 1, Min(a + n, Len(s)))

\* dict.get(key): None for a missing key
DictGet(v) == IF v = Absent THEN None ELSE v

\* Python truthiness of an int-or-None value
Truthy(v) == v # None /\ v # Absent /\ v # 0

EmptyDict == [ts |-> <<>>, ids |-> <<>>]

\* d.update(p)
DictUpdate(d, p) ==
    [ts  |-> [t \in DOMAIN d.ts \cup DOMAIN p.ts |->
                 IF t \in DOMAIN p.ts THEN p.ts[t] ELSE d.ts[t]],
     ids |-> [t \in DOMAIN d.ids \cup DOMAIN p.ids |->
                 IF t \in DOMAIN p.ids THEN p.ids[t] ELSE d.ids[t]]]

\* An event as the remote returns it: no derived field yet.
RawEvent(id, ts) ==
    [id |-> id, timestamp |-> ts, event_id |-> Absent, source_log_event |-> "", time |-> Absent]

(* --------------------------------------------------------------- dedup_by_id *)

\* One pass of the for loop of dedup_by_id over the events still to process.
\* st holds the function's locals; lr_ts is last_run[event_type].
RECURSIVE dedup_loop(_, _, _)
dedup_loop(st, todo, lr_ts) ==
    IF todo = <<>> THEN st
    ELSE LET event_timestamp == DictGet(Head(todo).timestamp)
             event_id == DictGet(Head(todo).id)
             event == [Head(todo) EXCEPT !.event_id = event_id]
             st1 == IF event_timestamp = lr_ts
                    THEN IF event_id \notin st.last_run_ids
                         THEN [st EXCEPT !.new_events = Append(@, event),
                                         !.last_run_ids = @ \cup {event_id}]
                         ELSE st
                    ELSE [st EXCEPT !.new_events = Append(@, event),
                                    !.new_events_ids = Append(@, event_id),
                                    !.has_ts = TRUE,
                                    !.ts = event_timestamp]
             st2 == [st1 EXCEPT !.has_ids = TRUE,
                                !.ids = IF st1.new_events_ids # <<>>
                                        THEN Range(st1.new_events_ids)
                                        ELSE st1.last_run_ids]
         IN dedup_loop(st2, Tail(todo), lr_ts)

\* dedup_by_id with the new ids merged into the ids of the last run.
dedup_by_id_merging(lr, results, event_type, lim) ==
    LET prior == IF event_type \in DOMAIN lr.ids THEN lr.ids[event_type] ELSE {}
        st0 == [last_run_ids |-> prior, new_events |-> <<>>, new_events_ids |-> <<>>,
                has_ts |-> FALSE, ts |-> None, has_ids |-> FALSE, ids |-> {}]
        st == dedup_loop(st0, Take(Reverse(results), lim), lr.ts[event_type])
    IN [new_events   |-> st.new_events,
        new_last_run |-> [ts  |-> IF st.has_ts THEN event_type :> st.ts ELSE <<>>,
                          ids |-> IF st.has_ids THEN event_type :> (st.ids \cup prior)
                                  ELSE <<>>]]

\* dedup_by_id without the reversal: the newest records are processed first.
dedup_by_id_unreversed(lr, results, event_type, lim) ==
    LET prior == IF event_type \in DOMAIN lr.ids THEN lr.ids[event_type] ELSE {}
        st0 == [last_run_ids |-> prior, new_events |-> <<>>, new_events_ids |-> <<>>,
                has_ts |-> FALSE, ts |-> None, has_ids |-> FALSE, ids |-> {}]
        st == dedup_loop(st0, Take(results, lim), lr.ts[event_type])
    IN [new_events   |-> st.new_events,
        new_last_run |-> [ts  |-> IF st.has_ts THEN event_type :> st.ts ELSE <<>>,
                          ids |-> IF st.has_ids THEN event_type :> st.ids ELSE <<>>]]

\* dedup_by_id(last_run, results, event_type, limit): [new_events, new_last_run]
dedup_by_id(lr, results, event_type, lim) ==
    LET st0 == [last_run_ids   |-> IF event_type \in DOMAIN lr.ids
                                   THEN lr.ids[event_type] ELSE {},
                new_events     |-> <<>>,
                new_events_ids |-> <<>>,
                has_ts |-> FALSE, ts |-> None,
                has_ids |-> FALSE, ids |-> {}]
        sorted_list == Reverse(results)
        st == dedup_loop(st0, Take(sorted_list, lim), lr.ts[event_type])
    IN [new_events   |-> st.new_events,
        new_last_run |-> [ts  |-> IF st.has_ts THEN event_type :> st.ts ELSE <<>>,
                          ids |-> IF st.has_ids THEN event_type :> st.ids ELSE <<>>]]

\* What a call of dedup_by_id leaves in the list it was given: the records it
\* processed carry event_id (the dicts of the list are changed in place).
dedup_marks(results, lim) ==
    [i \in 1..Len(results) |->
        IF i > Len(results) - lim
        THEN [results[i] EXCEPT !.event_id = DictGet(results[i].id)]
        ELSE results[i]]

\* A dedup_by_id whose last_run_ids is the list of the last run itself, not a
\* set built from it: the ids it adds land in the caller's last run.
last_run_after_aliased(lr, results, event_type, lim) ==
    LET st0 == [last_run_ids |-> IF event_type \in DOMAIN lr.ids
                                 THEN lr.ids[event_type] ELSE {},
                new_events |-> <<>>, new_events_ids |-> <<>>,
                has_ts |-> FALSE, ts |-> None, has_ids |-> FALSE, ids |-> {}]
        st == dedup_loop(st0, Take(Reverse(results), lim), lr.ts[event_type])
    IN IF event_type \in DOMAIN lr.ids
       THEN [lr EXCEPT !.ids[event_type] = st.last_run_ids]
       ELSE lr

\* What a call of dedup_by_id leaves in the last_run it was given: last_run_ids
\* is a new set(...), the function only reads last_run.
last_run_after(lr, results, event_type, lim) ==
    LET last_run_ids == IF event_type \in DOMAIN lr.ids THEN lr.ids[event_type] ELSE {}
    IN IF event_type \in DOMAIN lr.ids
       THEN [lr EXCEPT !.ids[event_type] = last_run_ids]
       ELSE lr

(* ------------------------------------------------ populate_parsing_rule_fields *)

\* event['timestamp'] raises KeyError when the key is missing; only TypeError is caught.
populate_raises(event) == event.timestamp = Absent

\* timestamp_to_datestring(ts * 1000) is an external formatter: the model keeps
\* the millisecond value it formats. None * 1000 is the TypeError the code catches.
populate_parsing_rule_fields(event, event_type) ==
    [event EXCEPT !.source_log_event = event_type,
                  !.time = IF event.timestamp = None THEN Absent
                           ELSE event.timestamp * 1000]

(* ------------------------------------------------------------------- state *)

VARIABLES
    remote,         \* the remote's events per event type, oldest first
    persisted,      \* the last run the platform holds (getLastRun / setLastRun)
    max_fetch,      \* the configured max_fetch
    sent,           \* the batch send_events_to_xsiam accepted in this run
    once,           \* <<type, id>> of the events a fetch-events run has sent
    twice,          \* those that two different fetch-events runs have sent
    pc,             \* "idle", "page" (inside get_all_events), "send" or "done"
    outcome,        \* how the run of main ended: "none", "ok" or the exception
    cmd,            \* demisto.command() of the current run
    limit,          \* get_all_events' limit
    is_command,     \* get_all_events' is_command
    should_push,    \* the should_push_events argument of netskope-get-events
    last_run,       \* main's last_run, after the first-fetch seeding
    et,             \* index of event_type in ALL_SUPPORTED_EVENT_TYPES
    skip,           \* get_all_events' skip
    events,         \* get_all_events' events (of the current event type)
    events_result,  \* get_all_events' events_result
    new_last_run,   \* get_all_events' new_last_run
    requests,       \* <<et, skip>> of every request of this run that was answered
    fetched,        \* how many records this run accumulated, per event type
    rc              \* an input of dedup_by_id and its result (SpecReconcile)

envVars == <<remote, persisted, max_fetch, once, twice>>
runVars == <<sent, cmd, limit, is_command, should_push, last_run, et, skip, events,
             events_result, new_last_run, requests, fetched>>
vars == <<remote, persisted, max_fetch, sent, once, twice, pc, outcome, cmd, limit,
          is_command, should_push, last_run, et, skip, events, events_result,
          new_last_run, requests, fetched, rc>>

event_type == ALL_SUPPORTED_EVENT_TYPES[et]

\* The types that hold events on the remote.
RemoteTypes == {ALL_SUPPORTED_EVENT_TYPES[i] : i \in 1..ActiveTypes}

\* The limit argument of netskope-get-events (always given; the default of 50 is
\* one more value of it).
CommandLimits == 1..(MAX_EVENTS_PAGE_SIZE + 1)

RcIdle == [lr |-> EmptyDict, results |-> <<>>, given |-> <<>>, limit |-> 0, out |-> <<>>]

InitRun ==
    /\ pc = "idle" /\ outcome = "none"
    /\ cmd = "" /\ limit = 0 /\ is_command = FALSE /\ should_push = FALSE
    /\ last_run = EmptyDict /\ et = 1 /\ skip = 0
    /\ events = <<>> /\ events_result = <<>> /\ new_last_run = EmptyDict
    /\ requests = <<>> /\ sent = <<>>
    /\ fetched = [t \in Types |-> 0]

Init ==
    /\ remote = [t \in Types |-> <<>>]
    /\ persisted = EmptyDict
    /\ max_fetch \in 1..MaxFetch
    /\ once = {} /\ twice = {}
    /\ InitRun
    /\ rc = RcIdle

(* ------------------------------------------------------------------ remote *)

RECURSIVE SumLen(_, _)
SumLen(f, S) == IF S = {} THEN 0
                ELSE LET t == CHOOSE x \in S : TRUE IN Len(f[t]) + SumLen(f, S \ {t})

RemoteSize == SumLen(remote, Types)

\* A record that lacks the identifier or the timestamp (or holds a null timestamp).
Malformed(e) == e.id = Absent \/ e.timestamp \in {Absent, None}

RECURSIVE MaxOf(_)
MaxOf(S) == IF S = {} THEN FirstFetch
            ELSE LET x == CHOOSE y \in S : TRUE
                     r == MaxOf(S \ {x})
                 IN IF x > r THEN x ELSE r

LastTs(t) == MaxOf({remote[t][i].timestamp : i \in 1..Len(remote[t])})

MalformedOnRemote ==
    {<<t, i>> \in Types \X (1..MaxEvents) : i <= Len(remote[t]) /\ Malformed(remote[t][i])}

\* The remote records an event that lacks a field: no id (id = Absent), no
\* timestamp (ts = Absent) or a null timestamp (ts = None).
RemoteAppendMalformed(t, id, ts) ==
    /\ pc = "idle"
    /\ RemoteSize < MaxEvents
    /\ Cardinality(MalformedOnRemote) < MaxMalformed
    /\ Malformed(RawEvent(id, ts))
    /\ id \in {Absent, Len(remote[t]) + 1}
    /\ ts \in {Absent, None} \/ ts >= LastTs(t)
    /\ remote' = [remote EXCEPT ![t] = Append(@, RawEvent(id, ts))]
    /\ UNCHANGED <<persisted, max_fetch, once, twice, pc, outcome, runVars, rc>>

\* The remote records one more event of type t: a fresh id, a timestamp not
\* before that of the events it already holds. Events arrive between runs.
RemoteAppend(t, ts) ==
    /\ pc = "idle"
    /\ RemoteSize < MaxEvents
    /\ ts >= LastTs(t)
    /\ remote' = [remote EXCEPT ![t] = Append(@, RawEvent(Len(@) + 1, ts))]
    /\ UNCHANGED <<persisted, max_fetch, once, twice, pc, outcome, runVars, rc>>

\* What the remote holds of type t from starttime on, newest first.
RemoteWindow(t, starttime) ==
    Reverse(SelectSeq(remote[t],
                      LAMBDA e : e.timestamp \notin Nat \/ e.timestamp >= starttime))

\* The 'limit' of a request (get_events_request_v1/v2, get_alerts_request_v1).
request_limit == IF is_command THEN limit ELSE MAX_EVENTS_PAGE_SIZE

\* The data of a successful response to the request the loop issues now.
get_events_request ==
    Slice(RemoteWindow(event_type, DictGet(last_run.ts[event_type])), skip, request_limit)

(* -------------------------------------------------------------------- main *)

\* A seeding that starts every type without a timestamp from an empty id list.
Seed_resetting(lr) ==
    LET unset == {t \in Types : ~(t \in DOMAIN lr.ts /\ Truthy(lr.ts[t]))}
    IN [ts  |-> [t \in Types |-> IF t \in unset THEN FirstFetch ELSE lr.ts[t]],
        ids |-> [t \in DOMAIN lr.ids \cup unset |->
                    IF t \in unset THEN {} ELSE lr.ids[t]]]

\* The first-fetch seeding of main.
Seed(lr) ==
    LET unset == {t \in Types : ~(t \in DOMAIN lr.ts /\ Truthy(lr.ts[t]))}
    IN [ts  |-> [t \in Types |-> IF t \in unset THEN FirstFetch ELSE lr.ts[t]],
        ids |-> [t \in DOMAIN lr.ids \cup unset |->
                    IF t \in DOMAIN lr.ids THEN lr.ids[t] ELSE {}]]

\* main up to the first request of get_all_events.
main(c, lim, push) ==
    /\ pc = "idle"
    /\ pc' = "page"
    /\ cmd' = c
    /\ last_run' = Seed(persisted)
    /\ limit' = IF c = "netskope-get-events" THEN lim ELSE max_fetch
    /\ is_command' = (c # "fetch-events")
    /\ should_push' = push
    /\ et' = 1 /\ skip' = 0 /\ events' = <<>> /\ requests' = <<>>
    /\ fetched' = [t \in Types |-> 0]
    /\ events_result' = <<>> /\ new_last_run' = EmptyDict
    /\ UNCHANGED <<envVars, outcome, sent, rc>>

\* An except clause that sets the last run built so far before it reports.
return_error_committing(e) ==
    /\ pc' = "done"
    /\ outcome' = e
    /\ persisted' = new_last_run
    /\ UNCHANGED <<remote, max_fetch, once, twice, runVars, rc>>

\* An exception e reaches main's except clause: return_error, nothing else.
return_error(e) ==
    /\ pc' = "done"
    /\ outcome' = e
    /\ UNCHANGED <<envVars, runVars, rc>>

\* The batch's keys, as the sink sees them.
BatchKeys(batch) == {<<batch[i].source_log_event, batch[i].id>> : i \in 1..Len(batch)}

\* get_events_command after get_all_events: each event's timestamp is formatted
\* (None * 1000 raises TypeError, which nothing catches here).
get_events_raises(res) == \E i \in 1..Len(res) : res[i].timestamp = None

get_events_format(res) ==
    [i \in 1..Len(res) |-> [res[i] EXCEPT !.timestamp = @ * 1000]]

\* get_all_events has returned (res, nlr): the rest of the command.
Returned(res, nlr, reqs, got) ==
    IF cmd = "netskope-get-events" /\ get_events_raises(res)
    THEN return_error("TypeError")
    ELSE /\ pc' = IF cmd = "fetch-events" \/ (cmd = "netskope-get-events" /\ should_push)
                  THEN "send" ELSE "done"
         /\ outcome' = IF cmd = "fetch-events" \/ (cmd = "netskope-get-events" /\ should_push)
                       THEN outcome ELSE "ok"
         /\ events_result' = IF cmd = "netskope-get-events" THEN get_events_format(res)
                             ELSE res
         /\ new_last_run' = nlr
         /\ requests' = reqs /\ fetched' = got
         /\ UNCHANGED <<envVars, sent, cmd, limit, is_command, should_push,
                        last_run, et, skip, events, rc>>

\* A get_all_events that puts each type's events in front of the result.
EndOfType_prepending(evs, reqs, got) ==
    LET d == dedup_by_id(last_run, evs, event_type, limit)
        nlr == IF evs # <<>> THEN DictUpdate(new_last_run, d.new_last_run)
               ELSE new_last_run
        final_events == IF evs # <<>> THEN d.new_events ELSE <<>>
        key_error == /\ evs # <<>>
                     /\ \/ event_type \notin DOMAIN nlr.ts
                        \/ event_type \notin DOMAIN nlr.ids
        populate_error == \E i \in 1..Len(final_events) : populate_raises(final_events[i])
        res == [i \in 1..Len(final_events) |->
                   populate_parsing_rule_fields(final_events[i], event_type)]
               \o events_result
    IN IF key_error \/ populate_error
       THEN return_error("KeyError")
       ELSE IF et < Len(ALL_SUPPORTED_EVENT_TYPES)
       THEN /\ et' = et + 1 /\ skip' = 0 /\ events' = <<>>
            /\ events_result' = res /\ new_last_run' = nlr
            /\ requests' = reqs /\ fetched' = got
            /\ UNCHANGED <<envVars, pc, outcome, sent, cmd, limit, is_command,
                           should_push, last_run, rc>>
       ELSE Returned(res, nlr, reqs, got)

\* After the while loop of one event type, which accumulated evs.
EndOfType(evs, reqs, got) ==
    LET d == dedup_by_id(last_run, evs, event_type, limit)
        nlr == IF evs # <<>> THEN DictUpdate(new_last_run, d.new_last_run)
               ELSE new_last_run
        final_events == IF evs # <<>> THEN d.new_events ELSE <<>>
        \* the debug line reads new_last_run[event_type] and new_last_run["<type>-ids"]
        key_error == /\ evs # <<>>
                     /\ \/ event_type \notin DOMAIN nlr.ts
                        \/ event_type \notin DOMAIN nlr.ids
        populate_error == \E i \in 1..Len(final_events) : populate_raises(final_events[i])
        res == events_result \o
               [i \in 1..Len(final_events) |->
                   populate_parsing_rule_fields(final_events[i], event_type)]
    IN IF key_error \/ populate_error
       THEN return_error("KeyError")
       ELSE IF et < Len(ALL_SUPPORTED_EVENT_TYPES)
       THEN /\ et' = et + 1 /\ skip' = 0 /\ events' = <<>>
            /\ events_result' = res /\ new_last_run' = nlr
            /\ requests' = reqs /\ fetched' = got
            /\ UNCHANGED <<envVars, pc, outcome, sent, cmd, limit, is_command,
                           should_push, last_run, rc>>
       ELSE Returned(res, nlr, reqs, got)

\* The while loop without the test of the accumulated total against MAX_SKIP.
LoopBody_uncapped(ok, results) ==
    LET events1 == IF ok THEN events \o results ELSE events
        skip1 == IF ok /\ Len(results) = MAX_EVENTS_PAGE_SIZE
                 THEN skip + MAX_EVENTS_PAGE_SIZE ELSE skip
        stop == ~ok \/ Len(results) < MAX_EVENTS_PAGE_SIZE \/ results = <<>>
        reqs == Append(requests, <<et, skip>>)
        got == [fetched EXCEPT ![event_type] = Len(events1)]
    IN IF stop
       THEN EndOfType(events1, reqs, got)
       ELSE /\ events' = events1 /\ skip' = skip1
            /\ requests' = reqs /\ fetched' = got
            /\ UNCHANGED <<envVars, pc, outcome, sent, cmd, limit, is_command,
                           should_push, last_run, et, events_result, new_last_run, rc>>

\* One iteration of the while loop, from the response on.
LoopBody(ok, results) ==
    LET events1 == IF ok THEN events \o results ELSE events
        skip1 == IF ok /\ Len(results) = MAX_EVENTS_PAGE_SIZE
                 THEN skip + MAX_EVENTS_PAGE_SIZE ELSE skip
        stop == \/ ~ok
                \/ Len(results) < MAX_EVENTS_PAGE_SIZE
                \/ results = <<>>
                \/ Len(events1) = MAX_SKIP
        reqs == Append(requests, <<et, skip>>)
        got == [fetched EXCEPT ![event_type] = Len(events1)]
    IN IF stop
       THEN EndOfType(events1, reqs, got)
       ELSE /\ events' = events1 /\ skip' = skip1
            /\ requests' = reqs /\ fetched' = got
            /\ UNCHANGED <<envVars, pc, outcome, sent, cmd, limit, is_command,
                           should_push, last_run, et, events_result, new_last_run, rc>>

\* The remote answers the request with success and a page.
PageOk ==
    /\ pc = "page"
    /\ Len(events) <= MaxAccum
    /\ LoopBody(TRUE, get_events_request)

\* The remote answers with a status other than success.
PageRejected ==
    /\ pc = "page"
    /\ LoopBody(FALSE, <<>>)

\* The request raises (the transport's retries are exhausted).
PageTransportError ==
    /\ pc = "page"
    /\ return_error("TransportError")

\* A main that sets the last run after every accepted batch, whatever the command.
SendOk_committing ==
    /\ pc = "send"
    /\ pc' = "done" /\ outcome' = "ok"
    /\ sent' = events_result
    /\ persisted' = new_last_run
    /\ IF cmd = "fetch-events"
       THEN /\ once' = once \cup BatchKeys(events_result)
            /\ twice' = twice \cup (once \cap BatchKeys(events_result))
       ELSE UNCHANGED <<once, twice>>
    /\ UNCHANGED <<remote, max_fetch, cmd, limit, is_command, should_push, last_run,
                   et, skip, events, events_result, new_last_run, requests, fetched, rc>>

\* send_events_to_xsiam accepts the batch; fetch-events then sets the last run.
SendOk ==
    /\ pc = "send"
    /\ pc' = "done" /\ outcome' = "ok"
    /\ sent' = events_result
    /\ IF cmd = "fetch-events"
       THEN /\ persisted' = new_last_run
            /\ once' = once \cup BatchKeys(events_result)
            /\ twice' = twice \cup (once \cap BatchKeys(events_result))
       ELSE UNCHANGED <<persisted, once, twice>>
    /\ UNCHANGED <<remote, max_fetch, cmd, limit, is_command, should_push, last_run,
                   et, skip, events, events_result, new_last_run, requests, fetched, rc>>

\* send_events_to_xsiam raises.
SendFail ==
    /\ pc = "send"
    /\ return_error("SinkError")

\* main has returned: the process ends and its locals are gone.
Exit ==
    /\ pc = "done"
    /\ pc' = "idle" /\ outcome' = "none"
    /\ cmd' = "" /\ limit' = 0 /\ is_command' = FALSE /\ should_push' = FALSE
    /\ last_run' = EmptyDict /\ et' = 1 /\ skip' = 0
    /\ events' = <<>> /\ events_result' = <<>> /\ new_last_run' = EmptyDict
    /\ requests' = <<>> /\ sent' = <<>>
    /\ fetched' = [t \in Types |-> 0]
    /\ UNCHANGED <<envVars, rc>>

Commands == {"fetch-events", "netskope-get-events", "test-module"}

Start ==
    \/ main("fetch-events", 0, FALSE)
    \/ main("test-module", 0, FALSE)
    \/ \E lim \in CommandLimits, push \in BOOLEAN : main("netskope-get-events", lim, push)

Arrive == \E t \in RemoteTypes, ts \in FirstFetch..MaxTs : RemoteAppend(t, ts)

Next ==
    \/ Arrive
    \/ Start
    \/ PageOk
    \/ PageRejected
    \/ PageTransportError
    \/ SendOk
    \/ SendFail
    \/ Exit

Spec == Init /\ [][Next]_vars

TypeOK ==
    /\ pc \in {"idle", "page", "send", "done"}
    /\ et \in 1..Len(ALL_SUPPORTED_EVENT_TYPES)

(* Scheduled runs only, with a remote that answers every request and a sink  *)
(* that accepts every batch: the platform starts fetch-events again and again *)
(* and every started run goes on to its end.                                  *)

Scheduled == main("fetch-events", 0, FALSE)

NextLive ==
    \/ Arrive
    \/ Scheduled
    \/ PageOk
    \/ SendOk
    \/ Exit

FairSpec ==
    /\ Init /\ [][NextLive]_vars
    /\ WF_vars(Scheduled) /\ WF_vars(PageOk) /\ WF_vars(SendOk) /\ WF_vars(Exit)

(* The remote holds a backlog of one type of about MAX_SKIP events; the runs   *)
(* against it are followed up to the first fetch-events run that sends some.  *)

CapEvents(n, d) == [i \in 1..n |-> RawEvent(i, FirstFetch + 1 + ((i - 1) \div d))]

InitCap ==
    /\ \E n \in (MAX_SKIP - 1)..(MAX_SKIP + 2), d \in {1, MAX_EVENTS_PAGE_SIZE, MAX_SKIP + 2} :
           remote = [t \in Types |-> IF t = "audit" THEN CapEvents(n, d) ELSE <<>>]
    /\ persisted = EmptyDict
    /\ max_fetch \in 1..MaxFetch
    /\ once = {} /\ twice = {}
    /\ InitRun
    /\ rc = RcIdle

StartOnBacklog == once = {} /\ Start

NextCap ==
    \/ StartOnBacklog
    \/ PageOk
    \/ PageRejected
    \/ PageTransportError
    \/ SendOk
    \/ SendFail
    \/ Exit

SpecCap == InitCap /\ [][NextCap]_vars

(* The remote also holds records that lack a field; it answers every request.  *)

ArriveMalformed ==
    \E t \in RemoteTypes, id \in {Absent} \cup (1..MaxEvents),
       ts \in {Absent, None} \cup (FirstFetch..MaxTs) : RemoteAppendMalformed(t, id, ts)

NextMalformed ==
    \/ Arrive
    \/ ArriveMalformed
    \/ Start
    \/ PageOk
    \/ SendOk
    \/ Exit

SpecMalformed == Init /\ [][NextMalformed]_vars

(* dedup_by_id as a function: a last run of one type (audit), a batch as the   *)
(* remote returns it (newest first, nothing before the requested start time,  *)
(* every id once) and a limit; the function is then called on them.           *)

NewestFirst(b) == \A i \in 1..(Len(b) - 1) : b[i].timestamp >= b[i + 1].timestamp

DistinctIds(b) == \A i, j \in 1..Len(b) : i # j => b[i].id # b[j].id

Batches ==
    UNION {{b \in [1..n -> {RawEvent(id, ts) : id \in 1..MaxBatch, ts \in FirstFetch..MaxTs}] :
               NewestFirst(b) /\ DistinctIds(b)} : n \in 0..MaxBatch}

RcInputs ==
    {r \in {[lr |-> [ts |-> ("audit" :> c), ids |-> ("audit" :> ids)],
             results |-> b, given |-> b, limit |-> l, out |-> <<>>] :
                c \in FirstFetch..MaxTs, ids \in SUBSET (1..MaxBatch),
                b \in Batches, l \in 1..MaxBatch} :
        \A i \in 1..Len(r.given) : r.given[i].timestamp >= r.lr.ts["audit"]}

InitReconcile ==
    /\ remote = [t \in Types |-> <<>>]
    /\ persisted = EmptyDict
    /\ max_fetch = 1
    /\ once = {} /\ twice = {}
    /\ InitRun
    /\ rc \in RcInputs

\* One call dedup_by_id(last_run, results, 'audit', limit) on the same objects.
Reconcile ==
    /\ Len(rc.out) < MaxCalls
    /\ rc' = [rc EXCEPT
                 !.out = Append(@, dedup_by_id(rc.lr, rc.results, "audit", rc.limit)),
                 !.results = dedup_marks(rc.results, rc.limit),
                 !.lr = last_run_after(rc.lr, rc.results, "audit", rc.limit)]
    /\ UNCHANGED <<envVars, pc, outcome, runVars>>

SpecReconcile == InitReconcile /\ [][Reconcile]_vars

(* ------------------------------------------------------------------ claims *)

\* C1: no event is in the batches that two different fetch-events runs sent
\* (the remote keeps every event's id and timestamp, timestamps never decrease,
\* and each run starts from the last run the previous one set).
C1_NoDuplicateAcrossCycles == twice = {}

\* Every event the remote holds has been sent by a fetch-events run.
AllDelivered ==
    \A t \in Types : \A i \in 1..Len(remote[t]) : <<t, remote[t][i].id>> \in once

\* C2: under repeated scheduled runs with a persisted last run, every event the
\* remote holds (all of them are at or after the first-fetch time) is eventually
\* sent, also those a truncated run left behind.
C2_LeftoverEventuallyDelivered == []<>AllDelivered

\* The events of type t in a batch.
OfType(batch, t) == {e \in Range(batch) : e.source_log_event = t}

\* A fetch-events run has just sent its batch and set the last run.
Committed == pc = "done" /\ cmd = "fetch-events" /\ outcome = "ok"

C4_FullStateReturned ==
    [][(pc = "send" /\ cmd = "fetch-events" /\ outcome' = "ok") =>
          \A t \in DOMAIN persisted.ts :
              /\ t \in DOMAIN persisted'.ts
              /\ fetched[t] = 0 =>
                     /\ persisted'.ts[t] = persisted.ts[t]
                     /\ t \in DOMAIN persisted'.ids
                     /\ persisted'.ids[t] = persisted.ids[t]]_vars

\* The rule of C5, record by record in ascending time: at the checkpoint's
\* timestamp a known id is skipped and a new id is delivered and retained;
\* a strictly newer timestamp is delivered, becomes the last timestamp and
\* starts a fresh id set.
RECURSIVE ThreeCaseRule(_, _)
ThreeCaseRule(st, todo) ==
    IF todo = <<>> THEN st
    ELSE LET e == Head(todo)
             st1 == IF e.timestamp = st.ts
                    THEN IF e.id \in st.ids THEN st
                         ELSE [st EXCEPT !.delivered = Append(@, e.id), !.ids = @ \cup {e.id}]
                    ELSE [st EXCEPT !.delivered = Append(@, e.id), !.ts = e.timestamp,
                                    !.ids = {e.id}]
         IN ThreeCaseRule(st1, Tail(todo))

RuleOf(r) ==
    ThreeCaseRule([ts |-> r.lr.ts["audit"], ids |-> r.lr.ids["audit"], delivered |-> <<>>],
                  Take(Reverse(r.given), r.limit))

Ids(evs) == [i \in 1..Len(evs) |-> evs[i].id]

\* What a call returned as the checkpoint, read over the one it was given.
CheckpointOf(r, k) ==
    LET n == r.out[k].new_last_run
    IN [ts  |-> IF "audit" \in DOMAIN n.ts THEN n.ts["audit"] ELSE r.lr.ts["audit"],
        ids |-> IF "audit" \in DOMAIN n.ids THEN n.ids["audit"] ELSE r.lr.ids["audit"]]

\* The example of C5, with 100, 101 as 1, 2 and a, b, c as 1, 2, 3.
C5_Example(r) ==
    /\ r.lr = [ts |-> ("audit" :> 1), ids |-> ("audit" :> {1})]
    /\ r.given = <<RawEvent(3, 2), RawEvent(2, 1), RawEvent(1, 1)>>
    /\ r.limit = 3

TransportFailed == cmd = "fetch-events" /\ outcome = "TransportError"

\* C6: a transport error on a page request of a fetch-events run (any type, any
\* page) ends the run as failed; from the failing request to the end of the run
\* the persisted last run stays what it was and nothing is sent to the sink.
C6_NoPartialCommit ==
    [][(cmd = "fetch-events" /\ (outcome' = "TransportError" \/ TransportFailed))
          => /\ pc' \in {"done", "idle"}
             /\ persisted' = persisted
             /\ once' = once /\ twice' = twice
             /\ sent = <<>> /\ sent' = <<>>]_vars

\* A page of a later type fails after an earlier type's records were reconciled
\* and the run's new last run differs from the persisted one.
C6_Witness ==
    /\ pc = "done" /\ TransportFailed
    /\ et > 1
    /\ events_result # <<>>
    /\ persisted # EmptyDict
    /\ new_last_run # persisted

\* The requests of this run for the i-th event type.
NumRequests(i) == Cardinality({k \in 1..Len(requests) : requests[k][1] = i})

\* C7: with requests of at most MAX_EVENTS_PAGE_SIZE records, a run accumulates
\* at most MAX_SKIP records of one type; it stops asking for the type when the
\* accumulated count reaches MAX_SKIP, after at most MAX_SKIP / page size requests.
C7_HardCap ==
    request_limit <= MAX_EVENTS_PAGE_SIZE =>
        /\ \A t \in Types : fetched[t] <= MAX_SKIP
        /\ \A i \in 1..Len(ALL_SUPPORTED_EVENT_TYPES) : NumRequests(i) <= PagesToCap
        /\ pc = "page" => Len(events) < MAX_SKIP

\* A scheduled run took MAX_SKIP records in full pages from a remote that holds more.
C7_Witness ==
    /\ cmd = "fetch-events"
    /\ Len(remote["audit"]) > MAX_SKIP
    /\ fetched["audit"] = MAX_SKIP
    /\ NumRequests(1) = PagesToCap
    /\ et > 1

\* C8: whatever the limit of the run (scheduled, test-module or command), the
\* loop of one type issues at most MAX_SKIP / page size requests and goes on only
\* while the accumulated count is below MAX_SKIP.
C8_PaginationStops ==
    /\ \A i \in 1..Len(ALL_SUPPORTED_EVENT_TYPES) : NumRequests(i) <= PagesToCap
    /\ pc = "page" => Len(events) < MAX_SKIP

\* C9: a rejected page request is no error: the run goes on (to the next type,
\* or to the end of get_all_events), and the records accumulated for the type
\* are reconciled and added to the run's result.
C9_RejectedEndsTypeOnly ==
    [][PageRejected =>
          /\ outcome' \in {"none", "ok"}
          /\ IF et < Len(ALL_SUPPORTED_EVENT_TYPES)
             THEN pc' = "page" /\ et' = et + 1
             ELSE pc' \in {"send", "done"}
          /\ Len(events_result') >= Len(events_result)
          /\ events # <<>> => event_type \in DOMAIN new_last_run'.ids]_vars

\* The records dedup_by_id processes when the loop of the type stops on this page.
Processed == Take(Reverse(events \o get_events_request), limit)

\* C10: when a fetch-events run ends the loop of a type with a malformed record
\* among the records it processes, the run does not fail, and the record (unless
\* it sits at the checkpoint's timestamp) is in the run's result with its type.
C10_MalformedForwarded ==
    [][(/\ pc = "page" /\ cmd = "fetch-events"
        /\ PageOk
        /\ (et' # et \/ pc' # "page")
        /\ \E e \in Range(Processed) : Malformed(e))
          => /\ outcome' \in {"none", "ok"}
             /\ \A e \in Range(Processed) :
                    (Malformed(e) /\ e.timestamp # last_run.ts[event_type])
                        => \E r \in Range(events_result') :
                               /\ r.id = e.id /\ r.timestamp = e.timestamp
                               /\ r.source_log_event = event_type]_vars

OnDemand(c) == c \in {"netskope-get-events", "test-module"}

\* C12: no step of a netskope-get-events or test-module run, from its start to
\* its end and whatever the remote answers, changes the persisted last run.
C12_CommandsKeepLastRun ==
    [][(OnDemand(cmd) \/ OnDemand(cmd')) => persisted' = persisted]_vars

\* netskope-get-events has pushed a batch to the sink; the last run it computed
\* differs from the persisted one, which holds a checkpoint.
C12_Witness ==
    /\ pc = "done" /\ outcome = "ok"
    /\ cmd = "netskope-get-events" /\ should_push
    /\ sent # <<>>
    /\ persisted # EmptyDict
    /\ new_last_run # persisted

\* The persisted last run holds a (truthy) timestamp for type t.
HasCheckpoint(t) == t \in DOMAIN persisted.ts /\ Truthy(persisted.ts[t])

\* The run is between main's seeding and setLastRun.
Seeded == pc \in {"page", "send"}

\* C13 (as stated): in a run, every type without a persisted timestamp has the
\* first-fetch time and an empty id set, every type with one has its persisted
\* timestamp and ids, and every type's lower bound is a number.
C13_SeedEmptyIds ==
    Seeded =>
        \A t \in Types :
            /\ last_run.ts[t] \in Nat
            /\ IF HasCheckpoint(t)
               THEN /\ last_run.ts[t] = persisted.ts[t]
                    /\ t \in DOMAIN persisted.ids => last_run.ids[t] = persisted.ids[t]
               ELSE /\ last_run.ts[t] = FirstFetch
                    /\ last_run.ids[t] = {}

\* C13 (amended): as above, but a type without a persisted timestamp gets the
\* first-fetch time together with the id list the persisted last run holds for
\* it, and an empty one only when it holds none.
C13_SeedKeepsIds ==
    Seeded =>
        \A t \in Types :
            /\ last_run.ts[t] \in Nat
            /\ IF HasCheckpoint(t)
               THEN /\ last_run.ts[t] = persisted.ts[t]
                    /\ t \in DOMAIN persisted.ids => last_run.ids[t] = persisted.ids[t]
               ELSE /\ last_run.ts[t] = FirstFetch
                    /\ last_run.ids[t] = IF t \in DOMAIN persisted.ids
                                         THEN persisted.ids[t] ELSE {}

\* A run starts from a last run with a checkpoint for one type, a null timestamp
\* with ids for a second and nothing for a third.
C13_Witness ==
    /\ Seeded
    /\ \E t \in Types : HasCheckpoint(t)
    /\ \E t \in Types : ~HasCheckpoint(t) /\ t \in DOMAIN persisted.ids
                        /\ persisted.ids[t] # {}
    /\ \E t \in Types : ~HasCheckpoint(t) /\ t \notin DOMAIN persisted.ids

\* The loop of the current type ends on this step.
TypeEnds == et' # et \/ pc' # "page"

\* C14: when a fetch-events run ends the loop of a type and every record it
\* processes carries the checkpoint's timestamp, the run does not fail, and the
\* type's new checkpoint keeps the timestamp, with the prior ids plus the ids of
\* the processed records as its id set.
C14_AllAtCheckpointCompletes ==
    [][(/\ pc = "page" /\ cmd = "fetch-events"
        /\ PageOk
        /\ TypeEnds
        /\ Processed # <<>>
        /\ \A e \in Range(Processed) : e.timestamp = last_run.ts[event_type])
          => /\ outcome' \in {"none", "ok"}
             /\ event_type \in DOMAIN new_last_run'.ts
             /\ new_last_run'.ts[event_type] = last_run.ts[event_type]
             /\ new_last_run'.ids[event_type] =
                    last_run.ids[event_type] \cup {e.id : e \in Range(Processed)}]_vars

\* What this step added to the run's result.
Added == SubSeq(events_result', Len(events_result) + 1, Len(events_result'))

\* The loop of the type ended with evs accumulated: the step added at most limit
\* records, all among the last limit of evs, and none of the accumulated records
\* outside these is older than an added one.
OldestFirst(evs) ==
    LET considered == Take(Reverse(evs), limit)
        left == Range(evs) \ Range(considered)
    IN /\ Len(Added) <= limit
       /\ \A i \in 1..Len(Added) : \E e \in Range(considered) : e.id = Added[i].id
       /\ \A x \in left : \A e \in Range(considered) :
              (\E i \in 1..Len(Added) : Added[i].id = e.id) => x.timestamp >= e.timestamp

\* C15: for every type in every run, only the limit oldest records of what the
\* loop accumulated (the last limit of the newest-first list) are considered: at
\* most limit are delivered, and none while an older accumulated one is left out.
C15_OldestFirstTruncation ==
    [][/\ (PageOk /\ TypeEnds) => OldestFirst(events \o get_events_request)
       /\ (PageRejected /\ TypeEnds) => OldestFirst(events)]_vars

\* A scheduled run accumulated more audit records than its limit, over more
\* than one page, and sent limit of them.
C15_Witness ==
    /\ Committed
    /\ fetched["audit"] > limit
    /\ NumRequests(1) > 1
    /\ Cardinality(OfType(sent, "audit")) = limit

\* C16: the k-th request of a run for a type carries the offset (k - 1) times the
\* page size (0 first, then the previous offset plus the page size, so no offset
\* twice), and no offset is above MAX_SKIP.
C16_OffsetDiscipline ==
    \A k \in 1..Len(requests) :
        /\ requests[k][2] = MAX_EVENTS_PAGE_SIZE *
               Cardinality({j \in 1..(k - 1) : requests[j][1] = requests[k][1]})
        /\ requests[k][2] <= MAX_SKIP

\* The place of a type in ALL_SUPPORTED_EVENT_TYPES.
TypeIndex(t) == CHOOSE i \in 1..Len(ALL_SUPPORTED_EVENT_TYPES) : ALL_SUPPORTED_EVENT_TYPES[i] = t

\* C17: the run's result lists the types in the order of
\* ALL_SUPPORTED_EVENT_TYPES and, within a type, the records by ascending time,
\* in the reverse of the order of the remote's answer (the remote numbers its
\* records by arrival and answers newest first).
C17_MergedBatchOrder ==
    \A i, j \in 1..Len(events_result) :
        i < j =>
            /\ TypeIndex(events_result[i].source_log_event)
                   <= TypeIndex(events_result[j].source_log_event)
            /\ events_result[i].source_log_event = events_result[j].source_log_event
                   => /\ events_result[i].timestamp <= events_result[j].timestamp
                      /\ events_result[i].id < events_result[j].id

\* A scheduled run sent two audit records of different times and a page record.
C17_Witness ==
    /\ Committed
    /\ \E a, b \in OfType(sent, "audit") : a.timestamp < b.timestamp
    /\ OfType(sent, "page") # {}

\* C18: the persisted last run changes only in the step in which the sink has
\* accepted the whole batch of a fetch-events run, and then to the last run of
\* that run; a failing sink call leaves it as it was; every id a persisted last
\* run holds is the id of an event a fetch-events run has handed to the sink.
C18_DeliverBeforeCommit ==
    [][/\ persisted' # persisted =>
              /\ pc = "send" /\ cmd = "fetch-events"
              /\ pc' = "done" /\ outcome' = "ok"
              /\ sent' = events_result
              /\ persisted' = new_last_run
              /\ BatchKeys(events_result) \subseteq once'
       /\ outcome' = "SinkError" => persisted' = persisted /\ once' = once
       /\ \A t \in DOMAIN persisted'.ids :
              \A id \in persisted'.ids[t] : <<t, id>> \in once']_vars

\* The sink refused the batch of a fetch-events run whose last run differs from
\* the persisted one.
C18_Witness ==
    /\ pc = "done" /\ outcome = "SinkError" /\ cmd = "fetch-events"
    /\ events_result # <<>>
    /\ persisted # EmptyDict
    /\ new_last_run # persisted

\* The timestamps of the events of type t that fetch-events runs have sent.
DeliveredTs(t) ==
    {remote[t][i].timestamp : i \in {k \in 1..Len(remote[t]) : <<t, remote[t][k].id>> \in once}}

\* C19: when a fetch-events run sets the last run, every type's timestamp is
\* still there and not smaller than before, and it is the largest timestamp of
\* the events of the type sent so far.
C19_CheckpointMonotone ==
    [][persisted' # persisted =>
          /\ \A t \in DOMAIN persisted.ts :
                 /\ t \in DOMAIN persisted'.ts
                 /\ persisted'.ts[t] >= persisted.ts[t]
          /\ \A t \in DOMAIN persisted'.ts :
                 \A ts \in DeliveredTs(t)' : persisted'.ts[t] >= ts]_vars

====
